---- MODULE Spec2Model ----
(***************************************************************************)
(* Model of news_signal_ollama.py: the interactive loop of main, the       *)
(* validator get_trading_signal_from_headline, interpret_signal and        *)
(* log_signal, with the model backend and the file system as environment.  *)
(*                                                                         *)
(* Text is a sequence: an input line is a sequence of one-character        *)
(* strings, a model response is a sequence of JSON tokens.  A confidence   *)
(* is an integer number of thousandths (0.6 is 600).                       *)
(***************************************************************************)
EXTENDS Integers, Sequences, FiniteSets, TLC

\* Bounds of the exploration.
MaxHeadlines == 2
MaxRestarts == 1
MaxWideHeadlines == 1

----------------------------------------------------------------------------
\* JSON tokens and values, all of one record shape.
Str(x) == [t |-> "str", s |-> x, n |-> 0]
Num(k) == [t |-> "num", s |-> "", n |-> k]
Null == [t |-> "null", s |-> "", n |-> 0]
Punct(x) == [t |-> "punct", s |-> x, n |-> 0]
Junk == [t |-> "junk", s |-> "Sure", n |-> 0]
WS == [t |-> "ws", s |-> " ", n |-> 0]
LBrace == Punct("{")
RBrace == Punct("}")
LBracket == Punct("[")
RBracket == Punct("]")
Colon == Punct(":")
Comma == Punct(",")

\* A dict is a function from key strings to values; NoObj is the empty dict.
NoObj == [k \in {} |-> Null]

\* str.strip(): drop the leading and the trailing whitespace (ws).
RECURSIVE LStrip(_, _)
LStrip(s, ws) == IF s # <<>> /\ Head(s) = ws THEN LStrip(Tail(s), ws) ELSE s

RECURSIVE RStrip(_, _)
RStrip(s, ws) ==
    IF s # <<>> /\ s[Len(s)] = ws THEN RStrip(SubSeq(s, 1, Len(s) - 1), ws) ELSE s

StripLeftOnly(s, ws) == LStrip(s, ws)

Strip(s, ws) == RStrip(LStrip(s, ws), ws)

\* str.lower() on the letters the inputs use.
LowerChar(c) ==
    CASE c = "Q" -> "q"
      [] c = "U" -> "u"
      [] c = "I" -> "i"
      [] c = "T" -> "t"
      [] c = "E" -> "e"
      [] c = "X" -> "x"
      [] OTHER -> c

Lower(s) == [i \in 1..Len(s) |-> LowerChar(s[i])]

----------------------------------------------------------------------------
\* json.loads on a token sequence: a scalar, a flat list of scalars or a
\* flat object of string keys and scalar values; anything else is a
\* JSONDecodeError.  Whitespace between tokens is skipped.
IsScalar(tok) == tok.t \in {"str", "num", "null"}

SkipBlank(text) == SelectSeq(text, LAMBDA tok : tok # WS)

ObjectShape(inner) ==
    \/ inner = <<>>
    \/ /\ Len(inner) % 4 = 3
       /\ \A i \in 1..Len(inner) :
            CASE i % 4 = 1 -> inner[i].t = "str"
              [] i % 4 = 2 -> inner[i] = Colon
              [] i % 4 = 3 -> IsScalar(inner[i])
              [] OTHER -> inner[i] = Comma

ListShape(inner) ==
    \/ inner = <<>>
    \/ /\ Len(inner) % 2 = 1
       /\ \A i \in 1..Len(inner) :
            IF i % 2 = 1 THEN IsScalar(inner[i]) ELSE inner[i] = Comma

\* The dict of an object body; a repeated key keeps its last value.
ObjectOf(inner) ==
    LET keyPos == {j \in 1..Len(inner) : j % 4 = 1}
        keys == {inner[j].s : j \in keyPos}
        lastPos(k) == CHOOSE j \in keyPos :
                          /\ inner[j].s = k
                          /\ \A j2 \in keyPos : inner[j2].s = k => j2 <= j
    IN  [k \in keys |-> inner[lastPos(k) + 2]]

json_loads(text) ==
    LET tk == SkipBlank(text)
        inner == SubSeq(tk, 2, Len(tk) - 1)
    IN  IF Len(tk) = 1 /\ IsScalar(tk[1])
        THEN [ok |-> TRUE, kind |-> "scalar", obj |-> NoObj]
        ELSE IF Len(tk) >= 2 /\ tk[1] = LBrace /\ tk[Len(tk)] = RBrace
                /\ ObjectShape(inner)
        THEN [ok |-> TRUE, kind |-> "dict", obj |-> ObjectOf(inner)]
        ELSE IF Len(tk) >= 2 /\ tk[1] = LBracket /\ tk[Len(tk)] = RBracket
                /\ ListShape(inner)
        THEN [ok |-> TRUE, kind |-> "list", obj |-> NoObj]
        ELSE [ok |-> FALSE, kind |-> "error", obj |-> NoObj]

----------------------------------------------------------------------------
\* Effects of one loop iteration, in program order.
Ev(e, v) == [e |-> e, v |-> v]

required_keys == {"sentiment", "confidence", "direction", "reason"}

WeakSubset(req, keys) == req \cap keys # {}

IsSubset(req, keys) == req \subseteq keys

\* get_trading_signal_from_headline: the backend call, then the validation.
\* backend.ok = FALSE is a failure of ollama.chat or of the envelope access.
get_trading_signal_from_headline(headline, backend) ==
    LET raw_content == Strip(backend.content, WS)
        data == json_loads(raw_content)
        called == <<Ev("prompt", Null), Ev("chat", Null)>>
    IN  IF ~backend.ok
        THEN [ret |-> "raise", raised |-> "BackendError", signal |-> NoObj,
              steps |-> called]
        ELSE IF ~data.ok
        THEN [ret |-> "none", raised |-> "", signal |-> NoObj,
              steps |-> called \o <<Ev("diag", Str("not valid JSON"))>>]
        ELSE IF data.kind # "dict"
        THEN [ret |-> "raise", raised |-> "AttributeError", signal |-> NoObj,
              steps |-> called]
        ELSE IF ~IsSubset(required_keys, DOMAIN data.obj)
        THEN [ret |-> "none", raised |-> "", signal |-> NoObj,
              steps |-> called \o <<Ev("diag", Str("missing required keys"))>>]
        ELSE [ret |-> "signal", raised |-> "", signal |-> data.obj,
              steps |-> called]

----------------------------------------------------------------------------
\* f"{confidence:.2f}": defined for a number only; thousandths are rounded
\* to hundredths.
Format2f(c) == [t |-> "fmt", s |-> "", n |-> (c.n + 5) \div 10]

\* The threshold 0.6 in thousandths.
ConfidenceThreshold == 600

LowConfidenceInclusive(confidence) == confidence.n <= ConfidenceThreshold

LowConfidence(confidence) == confidence.n < ConfidenceThreshold

\* The rule-based interpretation, lines 88-96.
SuggestedAction(sentiment, confidence, direction) ==
    IF LowConfidence(confidence) \/ direction = Str("flat")
       \/ sentiment = Str("neutral")
    THEN "FLAT_LOW_OR_NEUTRAL"
    ELSE IF direction = Str("long") THEN "LONG"
    ELSE IF direction = Str("short") THEN "SHORT"
    ELSE "FLAT_UNCLEAR"

\* interpret_signal: the prints in order; formatting a confidence that is
\* not a number raises at line 82, after the first three prints.
interpret_signal(signal) ==
    IF ~(required_keys \subseteq DOMAIN signal)
    THEN [raised |-> "KeyError", steps |-> <<>>]
    ELSE
    LET sentiment == signal["sentiment"]
        confidence == signal["confidence"]
        direction == signal["direction"]
        reason == signal["reason"]
        head == <<Ev("print_banner", Null), Ev("print_sentiment", sentiment),
                  Ev("print_direction", direction)>>
    IN  IF confidence.t # "num"
        THEN [raised |-> "TypeError", steps |-> head]
        ELSE [raised |-> "",
              steps |-> head \o
                 <<Ev("print_confidence", Format2f(confidence)),
                   Ev("print_reason", reason),
                   Ev("print_action",
                      Str(SuggestedAction(sentiment, confidence, direction))),
                   Ev("print_warning", Null)>>]

----------------------------------------------------------------------------
\* The log file: whether it exists, and its rows.
HeaderRow ==
    [hdr |-> TRUE, timestamp |-> 0, headline |-> <<"headline">>,
     sentiment |-> Str("sentiment"), direction |-> Str("direction"),
     confidence |-> Str("confidence"), reason |-> Str("reason")]

\* signal.get(key): None for a missing key.
Get(signal, key) == IF key \in DOMAIN signal THEN signal[key] ELSE Null

\* The probe of lines 142-147: the file can be opened for reading.
FileExists(file) == file.exists

\* Lines 154-155.
HeaderPart(file_exists) == IF ~file_exists THEN <<HeaderRow>> ELSE <<>>

WriteTruncating(file, rows) == [exists |-> TRUE, rows |-> rows]

\* open(filename, "a") and the writes: the rows go after the old content.
AppendRows(file, rows) == [exists |-> TRUE, rows |-> file.rows \o rows]

\* log_signal.  io is the outcome of the file system: "ok", "open_fail" (an
\* open raises OSError, nothing changes) or "write_fail" (the file is opened
\* for append, hence created, and the write raises before any row lands).
log_signal(headline, signal, file, io, now) ==
    LET row == [hdr |-> FALSE, timestamp |-> now, headline |-> headline,
                sentiment |-> Get(signal, "sentiment"),
                direction |-> Get(signal, "direction"),
                confidence |-> Get(signal, "confidence"),
                reason |-> Get(signal, "reason")]
        file_exists == FileExists(file)
    IN  IF io = "open_fail"
        THEN [raised |-> "OSError", file |-> file]
        ELSE IF io = "write_fail"
        THEN [raised |-> "OSError", file |-> AppendRows(file, <<>>)]
        ELSE [raised |-> "",
              file |-> AppendRows(file, HeaderPart(file_exists) \o <<row>>)]

----------------------------------------------------------------------------
\* The environment: the lines the operator types, the responses of the
\* backend and the outcomes of the file system.
Lines ==
    { <<>>, <<" ", " ">>,
      <<"q">>, <<"Q", "u", "I", "T">>, <<" ", "e", "x", "i", "t", " ">>,
      <<"q", "q">>, <<" ", "U", "p", " ">> }

\* The lines of the runs that look at one headline only.
WideLines == { <<"Q", "u", "I", "T">>, <<" ", "U", "p", " ">> }

Full(s, c, d, r) ==
    <<LBrace, Str("sentiment"), Colon, s, Comma, Str("confidence"), Colon, c,
      Comma, Str("direction"), Colon, d, Comma, Str("reason"), Colon, r,
      RBrace>>

\* The responses of the backend in the runs of the whole program.
Contents ==
    { Full(Str("bullish"), Num(900), Str("long"), Str("x")),
      Full(Str("bullish"), Null, Str("long"), Str("x")),
      <<LBrace, Str("sentiment"), Colon, Str("bullish"), Comma,
        Str("confidence"), Colon, Num(800), Comma,
        Str("direction"), Colon, Str("long"), RBrace>>,
      <<LBracket, RBracket>>,
      <<Junk, WS, LBrace, RBrace>> }

\* More responses, for the runs that look at one headline only.
WideContents ==
    Contents \cup
    { <<WS>> \o Full(Str("bearish"), Num(600), Str("short"), Str("x")) \o <<WS>>,
      Full(Str("neutral"), Num(900), Str("long"), Str("x")),
      Full(Str("bearish"), Num(300), Str("short"), Str("x")),
      Full(Str("bullish"), Num(599), Str("long"), Str("x")),
      Full(Str("xyz"), Num(2500), Str("up"), Str("x")),
      Full(Str("bullish"), Num(900), Str("flat"), Null),
      Full(Str("neutral"), Num(601), Str("sideways"), Num(7)),
      Full(Str("bullish"), Str("high"), Str("long"), Str("x")),
      <<LBrace, Str("extra"), Colon, Num(1), Comma>>
          \o Tail(Full(Str("bearish"), Num(900), Str("short"), Str("x"))),
      <<LBrace, Str("reason"), Colon, Str("y"), Comma>>
          \o Tail(Full(Str("bullish"), Num(900), Str("long"), Str("x"))),
      <<LBrace, Str("Sentiment"), Colon, Str("bullish"), Comma,
        Str("confidence"), Colon, Num(800), Comma,
        Str("direction"), Colon, Str("long"), Comma,
        Str("reason"), Colon, Str("x"), RBrace>>,
      <<LBrace, RBrace>>,
      <<LBracket, Num(1), Comma, Num(2), RBracket>>,
      <<Num(42)>>,
      <<Null>>,
      <<Str("bullish")>>,
      <<>>,
      <<LBrace, Str("sentiment"), Colon>>,
      Full(Str("bullish"), Num(900), Str("long"), Str("x")) \o <<Junk>> }

NoBackend == [ok |-> FALSE, content |-> <<>>]

BackendsOf(contents) == {[ok |-> TRUE, content |-> c] : c \in contents} \cup {NoBackend}

IoOutcomes == {"ok", "open_fail", "write_fail"}

OldRow ==
    [hdr |-> FALSE, timestamp |-> 0, headline |-> <<"o", "l", "d">>,
     sentiment |-> Str("bullish"), direction |-> Str("long"),
     confidence |-> Num(700), reason |-> Str("x")]

InitialLogs ==
    { [exists |-> FALSE, rows |-> <<>>],
      [exists |-> TRUE, rows |-> <<>>],
      [exists |-> TRUE, rows |-> <<HeaderRow, OldRow>>] }

\* How main is started: "script" runs the file, so main() is called at
\* line 127 before the def of log_signal at line 129 has been executed;
\* "module" imports the file and then calls main().
Entries == {"script", "module"}

----------------------------------------------------------------------------
VARIABLES
    pc,         \* "prompt": at input(); "done": loop left; "crashed": exception
    entry,      \* how this process instance was started
    log,        \* the log file
    log0,       \* the log file before the first process instance
    validated,  \* the headlines whose validation returned a signal, in order
    calls,      \* the number of backend calls made so far
    restarts,   \* the number of process instances started after the first
    persistFailed, \* an OSError was raised by log_signal at some point
    last        \* the last loop iteration: its inputs and its effects

vars == <<pc, entry, log, log0, validated, calls, restarts, persistFailed, last>>

QuitWords == {<<"q", "u", "i", "t">>, <<"e", "x", "i", "t">>, <<"q">>}

\* The name log_signal is bound when main reaches line 120.
LogSignalBound(e) == e = "module"

InterpretThenLog(signal, l) ==
    LET i == interpret_signal(signal)
    IN  IF i.raised # ""
        THEN [pc |-> "crashed", file |-> log, persist |-> FALSE,
              steps |-> i.steps \o <<Ev("raise", Str(i.raised))>>]
        ELSE IF l.raised # ""
        THEN [pc |-> "crashed", file |-> l.file, persist |-> TRUE,
              steps |-> i.steps \o <<Ev("call_log_signal", Null),
                                     Ev("raise", Str(l.raised))>>]
        ELSE [pc |-> "prompt", file |-> l.file, persist |-> FALSE,
              steps |-> i.steps \o <<Ev("call_log_signal", Null),
                                     Ev("log_signal_done", Null)>>]

\* Lines 120-121: log_signal(headline, signal), then interpret_signal(signal).
\* l is the outcome of the call of log_signal.
LogThenInterpret(signal, l) ==
    IF l.raised # ""
    THEN [pc |-> "crashed", file |-> l.file, persist |-> TRUE,
          steps |-> <<Ev("call_log_signal", Null), Ev("raise", Str(l.raised))>>]
    ELSE LET i == interpret_signal(signal)
         IN  [pc |-> IF i.raised = "" THEN "prompt" ELSE "crashed",
              file |-> l.file, persist |-> FALSE,
              steps |-> <<Ev("call_log_signal", Null),
                          Ev("log_signal_done", Null)>>
                        \o i.steps
                        \o (IF i.raised = "" THEN <<>>
                            ELSE <<Ev("raise", Str(i.raised))>>)]

\* One iteration of the while loop of main, lines 107-123.
main_iteration(line, backend, io) ==
    LET headline == Strip(line, " ")
        g == get_trading_signal_from_headline(headline, backend)
        l == log_signal(headline, g.signal, log, io, calls + 1)
        r == LogThenInterpret(g.signal, l)
        base == [headline |-> headline, calls |-> 0, ret |-> "",
                 signal |-> NoObj, file |-> log, persist |-> FALSE,
                 pc |-> "prompt", steps |-> <<>>]
    IN  IF Lower(headline) \in QuitWords
        THEN [base EXCEPT !.pc = "done",
                          !.steps = <<Ev("print_goodbye", Null)>>]
        ELSE IF headline = <<>>
        THEN [base EXCEPT !.steps = <<Ev("print_nonempty", Null)>>]
        ELSE IF g.ret = "raise"
        THEN [base EXCEPT !.calls = 1, !.ret = g.ret, !.pc = "crashed",
                          !.steps = g.steps \o <<Ev("raise", Str(g.raised))>>]
        ELSE IF g.ret = "none"
        THEN [base EXCEPT !.calls = 1, !.ret = g.ret,
                          !.steps = g.steps \o <<Ev("print_no_signal", Null)>>]
        ELSE IF ~LogSignalBound(entry)
        THEN [base EXCEPT !.calls = 1, !.ret = g.ret, !.signal = g.signal,
                          !.pc = "crashed",
                          !.steps = g.steps \o <<Ev("call_log_signal", Null),
                                                 Ev("raise", Str("NameError"))>>]
        ELSE [base EXCEPT !.calls = 1, !.ret = g.ret, !.signal = g.signal,
                          !.pc = r.pc, !.file = r.file, !.persist = r.persist,
                          !.steps = g.steps \o r.steps]

NoIteration ==
    [line |-> <<>>, backend |-> NoBackend, io |-> "ok",
     headline |-> <<>>, calls |-> 0, ret |-> "", signal |-> NoObj,
     steps |-> <<>>, before |-> [exists |-> FALSE, rows |-> <<>>]]

Init ==
    /\ pc = "prompt"
    /\ entry \in Entries
    /\ log \in InitialLogs
    /\ log0 = log
    /\ validated = <<>>
    /\ calls = 0
    /\ restarts = 0
    /\ persistFailed = FALSE
    /\ last = NoIteration

\* The environment answers only when asked: the backend when the iteration
\* calls it, the file system when the iteration calls log_signal.
CallsBackend(line) == main_iteration(line, NoBackend, "ok").calls = 1

CallsLogSignal(line, backend) ==
    LET steps == main_iteration(line, backend, "ok").steps
    IN  \E i \in 1..Len(steps) : steps[i].e = "log_signal_done"

\* The loop reads a line and runs one iteration on it.
Loop(lines, contents, maxCalls) ==
    /\ pc = "prompt"
    /\ \E line \in lines :
       \E backend \in (IF CallsBackend(line) THEN BackendsOf(contents)
                       ELSE {NoBackend}) :
       \E io \in (IF CallsLogSignal(line, backend) THEN IoOutcomes ELSE {"ok"}) :
         LET r == main_iteration(line, backend, io)
         IN  /\ calls + r.calls <= maxCalls
             /\ pc' = r.pc
             /\ log' = r.file
             /\ calls' = calls + r.calls
             /\ validated' = IF r.ret = "signal"
                             THEN Append(validated,
                                         [headline |-> r.headline,
                                          signal |-> r.signal,
                                          timestamp |-> calls + 1])
                             ELSE validated
             /\ persistFailed' = (persistFailed \/ r.persist)
             /\ last' = [line |-> line, backend |-> backend, io |-> io,
                         headline |-> r.headline, calls |-> r.calls,
                         ret |-> r.ret, signal |-> r.signal,
                         steps |-> r.steps, before |-> log]
    /\ UNCHANGED <<entry, log0, restarts>>

MainLoop == Loop(Lines, Contents, MaxHeadlines)

\* The process has ended; a new process instance is started on the same log.
Restart ==
    /\ pc \in {"done", "crashed"}
    /\ restarts < MaxRestarts
    /\ pc' = "prompt"
    /\ entry' \in Entries
    /\ restarts' = restarts + 1
    /\ last' = NoIteration
    /\ UNCHANGED <<log, log0, validated, calls, persistFailed>>

Next == MainLoop \/ Restart

Spec == Init /\ [][Next]_vars

\* The same program on the wider set of responses, one headline per run.
MainLoopWide == Loop(WideLines, WideContents, MaxWideHeadlines)

NextWide == MainLoopWide \/ Restart

SpecWide == Init /\ [][NextWide]_vars

----------------------------------------------------------------------------
\* Vocabulary of the properties.
HasStep(e) == \E i \in 1..Len(last.steps) : last.steps[i].e = e

StepCount(e) == Cardinality({i \in 1..Len(last.steps) : last.steps[i].e = e})

StepPos(e) == CHOOSE i \in 1..Len(last.steps) : last.steps[i].e = e

DataRows(rows) == SelectSeq(rows, LAMBDA r : ~r.hdr)

AbsentLog == [exists |-> FALSE, rows |-> <<>>]

ExpectedRow(v) ==
    [hdr |-> FALSE, timestamp |-> v.timestamp, headline |-> v.headline,
     sentiment |-> v.signal["sentiment"], direction |-> v.signal["direction"],
     confidence |-> v.signal["confidence"], reason |-> v.signal["reason"]]

ExpectedRows == [i \in 1..Len(validated) |-> ExpectedRow(validated[i])]

\* C1: starting from an absent log, and granting that no write to the log
\* failed, after N >= 1 headlines produced a valid signal the log holds one
\* header row and then the N data rows in call order, whatever the number
\* of process instances that wrote them.
C1_AppendLaw ==
    (log0 = AbsentLog /\ ~persistFailed /\ Len(validated) >= 1)
        => /\ log.exists
           /\ log.rows = <<HeaderRow>> \o ExpectedRows

\* C2: granting that no write to the log failed, the number of data rows
\* written equals the number of headlines whose validation returned a
\* signal, and an iteration that ended in "no signal" left the log as it was.
C2_RowsEqualValidSignals ==
    /\ ~persistFailed =>
         Len(DataRows(log.rows)) - Len(DataRows(log0.rows)) = Len(validated)
    /\ last.ret = "none" => log = last.before

\* C3: whenever the backend answered, the validation ended in a valid
\* signal or in "no signal"; it did not raise.
C3_ValidatorNeverRaises ==
    (last.calls = 1 /\ last.backend.ok) => last.ret \in {"signal", "none"}

\* C4: when the response parses to a key-value record, the validator
\* returns that record, unchanged, exactly when the four required keys are
\* among its keys, and "no signal" otherwise, whatever the values are.
C4_KeyPresenceDecides ==
    LET parsed == json_loads(Strip(last.backend.content, WS))
        complete == {"sentiment", "confidence", "direction", "reason"}
                        \subseteq DOMAIN parsed.obj
    IN  (last.calls = 1 /\ last.backend.ok /\ parsed.ok /\ parsed.kind = "dict")
            => /\ complete => (last.ret = "signal" /\ last.signal = parsed.obj)
               /\ ~complete => last.ret = "none"

C4_Witness ==
    /\ last.ret = "signal"
    /\ last.signal["sentiment"] = Str("xyz")
    /\ last.signal["confidence"] = Num(2500)
    /\ last.signal["direction"] = Str("up")

\* C5: for a valid signal with a numeric confidence, interpret_signal prints
\* exactly one action, chosen in this order: flat (low or neutral) when
\* confidence < 0.6 or direction is flat or sentiment is neutral; else long
\* for direction long; else short for direction short; else flat (unclear).
C5_Rule(sentiment, confidence, direction) ==
    IF confidence.n < 600 \/ direction = Str("flat") \/ sentiment = Str("neutral")
    THEN "FLAT_LOW_OR_NEUTRAL"
    ELSE IF direction = Str("long") THEN "LONG"
    ELSE IF direction = Str("short") THEN "SHORT"
    ELSE "FLAT_UNCLEAR"

C5_ActionRules ==
    (HasStep("print_banner") /\ last.signal["confidence"].t = "num")
        => LET sig == last.signal
               action == last.steps[StepPos("print_action")].v
           IN  /\ StepCount("print_action") = 1
               /\ action = Str(C5_Rule(sig["sentiment"], sig["confidence"],
                                       sig["direction"]))
               /\ action \in {Str("LONG"), Str("SHORT")}
                    => /\ sig["confidence"].n >= 600
                       /\ sig["sentiment"] # Str("neutral")

C5_Witness ==
    /\ HasStep("print_action")
    /\ last.signal["confidence"] = Num(600)
    /\ last.steps[StepPos("print_action")].v = Str("SHORT")

\* C6: interpret_signal completes on every signal the validator accepts:
\* it prints the four fields, one action and the disclaimer, and does not
\* raise.
C6_InterpreterTotal ==
    HasStep("log_signal_done")
        => /\ ~HasStep("raise")
           /\ LET k == StepPos("log_signal_done")
              IN  [i \in 1..(Len(last.steps) - k) |-> last.steps[k + i].e]
                    = <<"print_banner", "print_sentiment", "print_direction",
                        "print_confidence", "print_reason", "print_action",
                        "print_warning">>

\* C7: a call of log_signal that returns leaves the old rows as a prefix of
\* the new ones and adds one data row, after one header row exactly when the
\* file did not exist; and no step of the program changes an existing row.
C7_PureAppend ==
    [][ /\ Len(log'.rows) >= Len(log.rows)
        /\ SubSeq(log'.rows, 1, Len(log.rows)) = log.rows
        /\ (calls' = calls + 1
            /\ \E i \in 1..Len(last'.steps) : last'.steps[i].e = "log_signal_done")
             => LET added == SubSeq(log'.rows, Len(log.rows) + 1, Len(log'.rows))
                IN  /\ log'.exists
                    /\ Len(DataRows(added)) = 1
                    /\ ~added[Len(added)].hdr
                    /\ Len(added) = IF log.exists THEN 1 ELSE 2
                    /\ ~log.exists => added[1] = HeaderRow ]_vars

C7_Witness ==
    /\ HasStep("log_signal_done")
    /\ last.before.exists
    /\ Len(last.before.rows) >= 2
    /\ Len(log.rows) = Len(last.before.rows) + 1

\* C8: after a backend failure nothing is retried, validated, interpreted
\* or logged, the failure is reported and the loop is back at its prompt.
C8_BackendFailureKeepsLoop ==
    (last.calls = 1 /\ ~last.backend.ok)
        => /\ StepCount("chat") = 1
           /\ ~HasStep("call_log_signal")
           /\ ~HasStep("print_action")
           /\ log = last.before
           /\ pc = "prompt"

\* C9: a line that is blank after trimming makes no backend call, logs
\* nothing and is followed by a new prompt; a line that, trimmed, is quit,
\* exit or q in any letter case ends the loop without a backend call; any
\* other line makes exactly one backend call; once the loop has ended no
\* headline is processed.
C9_Blank(line) == \A i \in 1..Len(line) : line[i] = " "

C9_QuitLines ==
    {<<"q">>, <<"Q", "u", "I", "T">>, <<" ", "e", "x", "i", "t", " ">>}

C10_LogBeforeInterpret ==
    /\ HasStep("print_action")
         => /\ HasStep("log_signal_done")
            /\ StepPos("log_signal_done") < StepPos("print_banner")
            /\ Len(log.rows) > Len(last.before.rows)
            /\ log.rows[Len(log.rows)] =
                 ExpectedRow([headline |-> last.headline, signal |-> last.signal,
                              timestamp |-> calls])
    /\ (HasStep("call_log_signal") /\ ~HasStep("log_signal_done"))
         => /\ ~HasStep("print_banner")
            /\ ~HasStep("print_action")
            /\ pc = "crashed"
    /\ (last.ret = "signal" /\ pc = "prompt")
         => HasStep("log_signal_done") /\ HasStep("print_warning")

C10_Witness ==
    /\ HasStep("print_action")
    /\ last.steps[StepPos("print_action")].v = Str("LONG")
    /\ Len(DataRows(log.rows)) = 2

====
